---- MODULE Spec2Model ----
(***************************************************************************)
(* The OTP / session core of src/src/index.ts: the otpStorage and           *)
(* activeSessions maps and the three tool handlers that use them            *)
(* (request-order-otp, verify-order-otp, get-orders).  Each handler is cut  *)
(* at its awaits: the code between two awaits is one atomic step of the     *)
(* single-threaded event loop, and other handlers may run while a call is   *)
(* suspended at an await.                                                   *)
(* The SSE endpoints of the same file (GET /sse, POST /messages) share no   *)
(* state with the handlers; they are a specification of their own, SseSpec, *)
(* over the variables connections, activeTransport and response.            *)
(***************************************************************************)
EXTENDS Integers, Sequences, FiniteSets, Bags

VARIABLES
    now,             \* the value Date.now() returns (milliseconds)
    ticks,           \* how often the clock has advanced (bounds the run)
    otpStorage,      \* Map<email, {code, expires}> as its set of entries
    activeSessions,  \* Map<token, {email, createdAt}> as its set of entries
    uuidCount,       \* how many tokens randomUUID() has produced
    started,         \* how many handler invocations have begun (bounds the run)
    calls,           \* the bag of handler invocations suspended at an await
    ret,             \* what the step just taken handed back to the caller, if anything
    connections,     \* the SSE connections opened so far, in the order of their GET /sse
    activeTransport, \* the connection whose transport activeTransport refers to, or null
    response         \* what POST /messages answered in the step just taken, if anything

\* the state of the tool handlers and the state of the SSE endpoints
otp == <<now, ticks, otpStorage, activeSessions, uuidCount, started, calls, ret>>
sse == <<connections, activeTransport, response>>

vars == <<now, ticks, otpStorage, activeSessions, uuidCount, started, calls, ret,
          connections, activeTransport, response>>

----------------------------------------------------------------------------
\* Bounds of the model.

\* how many clock advances a run makes
MaxTicks == 2
\* how many handler invocations a run starts
MaxStarts == 3
\* how many handler invocations can be suspended at the same time
MaxCalls == 2
\* how many SSE connections are opened in a run
MaxConnections == 3

----------------------------------------------------------------------------
\* Program constants.

\* 5 * 60 * 1000: lifetime of a pending OTP in milliseconds
OtpTtlMs == 5 * 60 * 1000
\* 3600 * 1000: freshness window of a session in milliseconds
SessionTtlMs == 3600 * 1000

\* offset and width of the code range in Math.floor(100000 + Math.random() * 900000)
CodeBase == 100000
CodeSpan == 900000

----------------------------------------------------------------------------
\* Inputs.

\* the addresses a verification is asked for, and those among them that
\* ask for a code
Emails == {"a@x.com", "b@x.com"}
Requesters == {"a@x.com"}

\* Math.random() as a fraction <<n, d>> in [0, 1): the least draw, and one
\* whose product with 900000 is not an integer
RandomDraws == {<<0, 1>>, <<1, 7>>}

\* the clock advances by one millisecond, by the OTP lifetime or by the
\* session window
TickSteps == {1, OtpTtlMs, SessionTtlMs}

Statuses == {"any", "closed"}
Limits == {10, 250}

\* the n-th value of randomUUID(), and a token string that it never produces
UUID(n) == <<"uuid", n>>
BogusToken == <<"bogus">>

----------------------------------------------------------------------------
\* Number.prototype.toString for a non-negative integer: its decimal digits.

RECURSIVE Digits(_)
Digits(n) == IF n < 10 THEN <<n>> ELSE Append(Digits(n \div 10), n % 10)

NumToString(n) == Digits(n)

\* Math.floor(100000 + r * 900000) for r = n / d
GenerateCode(r) == NumToString((CodeBase * r[2] + r[1] * CodeSpan) \div r[2])

\* the code strings a caller submits: every code the issuer can draw, one
\* of them with its last digit dropped, and one that is never issued
CodeInputs == {GenerateCode(r) : r \in RandomDraws}
                \cup {<<1, 0, 0, 0, 0>>, <<0, 0, 0, 0, 0, 0>>}

----------------------------------------------------------------------------
\* The two maps.  A Map is the set of its entries; get, set and delete are
\* the methods of the JavaScript Map.

\* what Map.get returns for a missing key
Undefined == [undefined |-> TRUE]

OtpEntries(m, email) == {r \in m : r.email = email}

\* otpStorage.get(email)
OtpGet(m, email) ==
    IF OtpEntries(m, email) = {} THEN Undefined
    ELSE CHOOSE r \in OtpEntries(m, email) : TRUE

\* a set that keeps the entry already stored under the key
OtpSetIfAbsent(m, email, code, expires) ==
    IF OtpEntries(m, email) # {}
    THEN m
    ELSE m \cup {[email |-> email, code |-> code, expires |-> expires]}

\* a set that adds the entry without replacing the one under the same key
OtpSetAccumulate(m, email, code, expires) ==
    m \cup {[email |-> email, code |-> code, expires |-> expires]}

\* otpStorage.set(email, {code, expires})
OtpSet(m, email, code, expires) ==
    (m \ OtpEntries(m, email))
        \cup {[email |-> email, code |-> code, expires |-> expires]}

\* a delete that removes nothing
OtpDeleteNothing(m, email) == m

\* otpStorage.delete(email)
OtpDelete(m, email) == m \ OtpEntries(m, email)

SessionEntries(m, token) == {r \in m : r.token = token}

\* a lookup that falls back to some session when the key is missing
SessionGetAny(m, token) ==
    IF SessionEntries(m, token) # {} THEN CHOOSE r \in SessionEntries(m, token) : TRUE
    ELSE IF m # {} THEN CHOOSE r \in m : TRUE
    ELSE Undefined

\* activeSessions.get(token)
SessionGet(m, token) ==
    IF SessionEntries(m, token) = {} THEN Undefined
    ELSE CHOOSE r \in SessionEntries(m, token) : TRUE

\* activeSessions.set(token, {email, createdAt})
SessionSet(m, token, email, createdAt) ==
    (m \ SessionEntries(m, token))
        \cup {[token |-> token, email |-> email, createdAt |-> createdAt]}

\* a delete that removes nothing
SessionDeleteNothing(m, token) == m

\* activeSessions.delete(token)
SessionDelete(m, token) == m \ SessionEntries(m, token)

----------------------------------------------------------------------------
\* The conditions the handlers branch on.

\* expires: Date.now() + 5 * 60 * 1000
OtpExpires(t) == t + OtpTtlMs

\* the check without its expiry test
OtpRejectedNoExpiry(stored, code, t) ==
    \/ stored = Undefined
    \/ stored.code # code

\* the check with the expiry instant itself already rejected
OtpRejectedAtExpiry(stored, code, t) ==
    \/ stored = Undefined
    \/ stored.code # code
    \/ t >= stored.expires

\* !stored || stored.code !== code || Date.now() > stored.expires
OtpRejected(stored, code, t) ==
    \/ stored = Undefined
    \/ stored.code # code
    \/ t > stored.expires

\* the freshness test with the window's last millisecond left out
SessionExpiredEarly(session, t) == t - session.createdAt >= SessionTtlMs

\* Date.now() - session.createdAt > 3600 * 1000
SessionExpired(session, t) == t - session.createdAt > SessionTtlMs

----------------------------------------------------------------------------
\* What the handlers return: { isError, content: [{ type: "text", text }] },
\* with the text kept as the parts it is built from.  A result without an
\* isError field is one with isError false.

\* `OTP sent to ${email}`
OtpSentResult(email) ==
    [isError |-> FALSE, text |-> [t |-> "OTP sent to ", email |-> email]]

\* `Failed to send OTP: ${error}`
SendFailedResult(error) ==
    [isError |-> TRUE, text |-> [t |-> "Failed to send OTP: ", error |-> error]]

\* "Invalid or expired OTP"
InvalidOtpResult ==
    [isError |-> TRUE, text |-> [t |-> "Invalid or expired OTP"]]

\* a rejection that names its cause when the code has expired
VerifyRejectionByCause(stored, code, t) ==
    IF stored # Undefined /\ stored.code = code
    THEN [isError |-> TRUE, text |-> [t |-> "Expired OTP"]]
    ELSE InvalidOtpResult

\* what verify-order-otp returns when its check fails: one return statement
\* for a missing entry, a different code and a passed expiry
VerifyRejection(stored, code, t) == InvalidOtpResult

\* JSON.stringify({ token, message: "Verified, but no customer found ..." })
NoCustomerResult(token) ==
    [isError |-> FALSE,
     text |-> [token |-> token,
               message |-> "Verified, but no customer found with this email."]]

\* a catch block that reports the lookup failure as an error result
EnrichmentFailedAsError(token, error) ==
    [isError |-> TRUE,
     text |-> [message |-> "Failed to retrieve orders: ", error |-> error]]

\* JSON.stringify({ token, message: "Verified, but failed ...: " + error })
EnrichmentFailedResult(token, error) ==
    [isError |-> FALSE,
     text |-> [token |-> token,
               message |-> "Verified, but failed to retrieve orders: ",
               error |-> error]]

\* JSON.stringify({ token, firstName: customer.firstName, orders })
VerifiedResult(token, firstName, orders) ==
    [isError |-> FALSE,
     text |-> [token |-> token, firstName |-> firstName, orders |-> orders]]

\* "Unauthorized: Invalid token", the text kept as the parts around ": "
InvalidTokenResult ==
    [isError |-> TRUE,
     text |-> [t |-> "Unauthorized", detail |-> "Invalid token"]]

\* an expiry reported with the text of the unknown token
TokenExpiredUnified == InvalidTokenResult

\* "Unauthorized: Token expired"
TokenExpiredResult ==
    [isError |-> TRUE,
     text |-> [t |-> "Unauthorized", detail |-> "Token expired"]]

\* JSON.stringify(result) of the wrapped order query
OrdersResult(result) == [isError |-> FALSE, text |-> [json |-> result]]

\* the handler's promise resolves with a result value
Returned(kind, call, value) ==
    [kind |-> kind, outcome |-> "result", call |-> call, value |-> value]

\* the handler's promise rejects: the fault leaves the handler
Threw(kind, call, error) ==
    [kind |-> kind, outcome |-> "fault", call |-> call,
     value |-> [error |-> error]]

\* the step returned nothing: no handler finished in it
NoReturn == [kind |-> "none"]

----------------------------------------------------------------------------
\* What the collaborators answer.

\* resend.emails.send rejects with
MailErrors == {"MailError"}

\* getCustomers.execute resolves with { customers }, or rejects
CustomerLists ==
    {<< >>,
     <<[id |-> <<"gid:", "", "shopify", "Customer", "123456">>,
        firstName |-> "Ann"]>>}
LookupErrors == {"LookupError"}

\* getCustomerOrders.execute resolves with { orders }, or rejects
OrderLists == {<<"#1001">>}

\* getOrders.execute resolves with its result, or rejects
QueryErrors == {"QueryError"}

\* customerResult.customers[0]
First(list) == IF Len(list) = 0 THEN Undefined ELSE list[1]

\* customer.id.split('/').pop(), the id kept as its '/'-separated segments
SplitPop(id) == id[Len(id)]

\* the arguments handed on whole, the token among them
RestKeepsToken(args) == args

\* const { token, ...rest } = args
Rest(args) == [f \in DOMAIN args \ {"token"} |-> args[f]]

----------------------------------------------------------------------------
\* Suspended handler invocations.  Each is the record of the handler's
\* arguments and locals and of the await it is suspended at.

Suspended(kind, pc) ==
    {call \in BagToSet(calls) : call.kind = kind /\ call.pc = pc}

\* room for one more suspended invocation
Room == BagCardinality(calls) < MaxCalls

Suspend(call) == calls (+) SetToBag({call})
Resume(call) == calls (-) SetToBag({call})

\* tokens a caller can present: a made-up one, or one a verify-order-otp
\* call has handed out (a token is not known before its call returns)
Withheld == {call.token : call \in {d \in BagToSet(calls) :
                                        d.kind = "verify-order-otp"}}

TokenInputs ==
    {BogusToken} \cup ({UUID(n) : n \in 1 .. uuidCount} \ Withheld)

\* the arguments of a get-orders call after schema validation
GetOrdersArgs ==
    {[status |-> s, limit |-> l, token |-> t] :
        s \in Statuses, l \in Limits, t \in TokenInputs}

----------------------------------------------------------------------------
\* The SSE endpoints.

\* let activeTransport = null
NoTransport == 0

\* res.status(503).send("No active SSE connection")
NoConnectionResponse == [status |-> 503, text |-> "No active SSE connection"]

\* res.status(500).send("Internal Server Error")
InternalErrorResponse == [status |-> 500, text |-> "Internal Server Error"]

\* the transport answered the POST itself
HandledResponse == [handledBy |-> "transport"]

NoResponse == [none |-> TRUE]

\* how activeTransport.handlePostMessage(req, res) ends
PostOutcomes == {"resolved", "rejected"}

\* the connections opened so far
ConnectionIds == 1 .. Len(connections)

\* the connections whose response stream is open
OpenConnections == {id \in ConnectionIds : connections[id].socket = "open"}

----------------------------------------------------------------------------
Init ==
    /\ now = 0
    /\ ticks = 0
    /\ otpStorage = {}
    /\ activeSessions = {}
    /\ uuidCount = 0
    /\ started = 0
    /\ calls = EmptyBag
    /\ ret = NoReturn
    /\ connections = << >>
    /\ activeTransport = NoTransport
    /\ response = NoResponse

\* time passes, and a sweep drops the sessions that have expired
TickSweeping(d) ==
    /\ ticks < MaxTicks
    /\ UNCHANGED sse
    /\ now' = now + d
    /\ ticks' = ticks + 1
    /\ ret' = NoReturn
    /\ activeSessions' =
           {x \in activeSessions : ~SessionExpired(x, now + d)}
    /\ UNCHANGED <<otpStorage, uuidCount, started, calls>>

\* time passes between two steps of the event loop
Tick(d) ==
    /\ ticks < MaxTicks
    /\ UNCHANGED sse
    /\ now' = now + d
    /\ ticks' = ticks + 1
    /\ ret' = NoReturn
    /\ UNCHANGED <<otpStorage, activeSessions, uuidCount, started, calls>>

\* request-order-otp that revokes the sessions of the email it serves
RequestOrderOtpRevoking(email, r) ==
    LET code == GenerateCode(r)
        call == [kind |-> "request-order-otp", pc |-> "send", email |-> email,
                 code |-> code, expires |-> OtpExpires(now)]
    IN  /\ started < MaxStarts
        /\ UNCHANGED sse
        /\ Room
        /\ started' = started + 1
        /\ otpStorage' = OtpSet(otpStorage, email, code, OtpExpires(now))
        /\ activeSessions' = {x \in activeSessions : x.email # email}
        /\ calls' = Suspend(call)
        /\ ret' = NoReturn
        /\ UNCHANGED <<now, ticks, uuidCount>>

\* request-order-otp up to its await: draw the code, store it, start the mail
RequestOrderOtp(email, r) ==
    LET code == GenerateCode(r)
        call == [kind |-> "request-order-otp", pc |-> "send", email |-> email,
                 code |-> code, expires |-> OtpExpires(now)]
    IN  /\ started < MaxStarts
        /\ UNCHANGED sse
        /\ Room
        /\ started' = started + 1
        /\ otpStorage' = OtpSet(otpStorage, email, code, OtpExpires(now))
        /\ calls' = Suspend(call)
        /\ ret' = NoReturn
        /\ UNCHANGED <<now, ticks, activeSessions, uuidCount>>

\* resend.emails.send resolved: the try block returns
SendResolved(call) ==
    /\ call \in Suspended("request-order-otp", "send")
    /\ UNCHANGED sse
    /\ ret' = Returned("request-order-otp",
                       [email |-> call.email, code |-> call.code],
                       OtpSentResult(call.email))
    /\ calls' = Resume(call)
    /\ UNCHANGED <<now, ticks, otpStorage, activeSessions, uuidCount, started>>

\* a catch block that takes the pending OTP back
SendRejectedRollback(call, error) ==
    /\ call \in Suspended("request-order-otp", "send")
    /\ UNCHANGED sse
    /\ ret' = Returned("request-order-otp",
                       [email |-> call.email, code |-> call.code],
                       SendFailedResult(error))
    /\ otpStorage' = OtpDelete(otpStorage, call.email)
    /\ calls' = Resume(call)
    /\ UNCHANGED <<now, ticks, activeSessions, uuidCount, started>>

\* resend.emails.send rejected: the catch block returns
SendRejected(call, error) ==
    /\ call \in Suspended("request-order-otp", "send")
    /\ UNCHANGED sse
    /\ ret' = Returned("request-order-otp",
                       [email |-> call.email, code |-> call.code],
                       SendFailedResult(error))
    /\ calls' = Resume(call)
    /\ UNCHANGED <<now, ticks, otpStorage, activeSessions, uuidCount, started>>

\* verify-order-otp that burns the pending OTP on a wrong guess
VerifyOrderOtpBurning(email, code) ==
    LET stored == OtpGet(otpStorage, email)
        token == UUID(uuidCount + 1)
        call == [kind |-> "verify-order-otp", pc |-> "getCustomers",
                 email |-> email, code |-> code, token |-> token]
    IN  /\ started < MaxStarts
        /\ UNCHANGED sse
        /\ started' = started + 1
        /\ IF OtpRejected(stored, code, now)
           THEN /\ ret' = Returned("verify-order-otp",
                                   [email |-> email, code |-> code],
                                   VerifyRejection(stored, code, now))
                /\ otpStorage' = OtpDelete(otpStorage, email)
                /\ UNCHANGED <<now, ticks, activeSessions, uuidCount, calls>>
           ELSE /\ Room
                /\ otpStorage' = OtpDelete(otpStorage, email)
                /\ uuidCount' = uuidCount + 1
                /\ activeSessions' =
                       SessionSet(activeSessions, token, email, now)
                /\ calls' = Suspend(call)
                /\ ret' = NoReturn
                /\ UNCHANGED <<now, ticks>>

\* verify-order-otp that purges the pending OTP it finds expired
VerifyOrderOtpPurging(email, code) ==
    LET stored == OtpGet(otpStorage, email)
        token == UUID(uuidCount + 1)
        call == [kind |-> "verify-order-otp", pc |-> "getCustomers",
                 email |-> email, code |-> code, token |-> token]
    IN  /\ started < MaxStarts
        /\ UNCHANGED sse
        /\ started' = started + 1
        /\ IF OtpRejected(stored, code, now)
           THEN /\ ret' = Returned("verify-order-otp",
                                   [email |-> email, code |-> code],
                                   VerifyRejection(stored, code, now))
                /\ otpStorage' =
                       IF stored # Undefined /\ now > stored.expires
                       THEN OtpDelete(otpStorage, email)
                       ELSE otpStorage
                /\ UNCHANGED <<now, ticks, activeSessions, uuidCount, calls>>
           ELSE /\ Room
                /\ otpStorage' = OtpDelete(otpStorage, email)
                /\ uuidCount' = uuidCount + 1
                /\ activeSessions' =
                       SessionSet(activeSessions, token, email, now)
                /\ calls' = Suspend(call)
                /\ ret' = NoReturn
                /\ UNCHANGED <<now, ticks>>

\* verify-order-otp up to its first await: the check, and on success the
\* deletion of the pending OTP, the new token, the session and the start of
\* the customer lookup
VerifyOrderOtp(email, code) ==
    LET stored == OtpGet(otpStorage, email)
        token == UUID(uuidCount + 1)
        call == [kind |-> "verify-order-otp", pc |-> "getCustomers",
                 email |-> email, code |-> code, token |-> token]
    IN  /\ started < MaxStarts
        /\ UNCHANGED sse
        /\ started' = started + 1
        /\ IF OtpRejected(stored, code, now)
           THEN /\ ret' = Returned("verify-order-otp",
                                   [email |-> email, code |-> code],
                                   VerifyRejection(stored, code, now))
                /\ UNCHANGED <<now, ticks, otpStorage, activeSessions,
                               uuidCount, calls>>
           ELSE /\ Room
                /\ otpStorage' = OtpDelete(otpStorage, email)
                /\ uuidCount' = uuidCount + 1
                /\ activeSessions' =
                       SessionSet(activeSessions, token, email, now)
                /\ calls' = Suspend(call)
                /\ ret' = NoReturn
                /\ UNCHANGED <<now, ticks>>

\* getCustomers.execute resolved: without a customer the handler returns,
\* with one it starts the order lookup
CustomersResolved(call, customers) ==
    LET customer == First(customers)
    IN  /\ call \in Suspended("verify-order-otp", "getCustomers")
        /\ UNCHANGED sse
        /\ IF customer = Undefined
           THEN /\ ret' = Returned("verify-order-otp",
                                   [email |-> call.email, code |-> call.code],
                                   NoCustomerResult(call.token))
                /\ calls' = Resume(call)
           ELSE /\ calls' = Resume(call) (+) SetToBag({
                        [kind |-> "verify-order-otp",
                         pc |-> "getCustomerOrders",
                         email |-> call.email, code |-> call.code,
                         token |-> call.token,
                         firstName |-> customer.firstName,
                         customerId |-> SplitPop(customer.id)]})
                /\ ret' = NoReturn
        /\ UNCHANGED <<now, ticks, otpStorage, activeSessions, uuidCount,
                       started>>

\* getCustomers.execute rejected: the catch block returns
CustomersRejected(call, error) ==
    /\ call \in Suspended("verify-order-otp", "getCustomers")
    /\ UNCHANGED sse
    /\ ret' = Returned("verify-order-otp",
                       [email |-> call.email, code |-> call.code],
                       EnrichmentFailedResult(call.token, error))
    /\ calls' = Resume(call)
    /\ UNCHANGED <<now, ticks, otpStorage, activeSessions, uuidCount, started>>

\* getCustomerOrders.execute resolved: the try block returns
OrdersResolved(call, orders) ==
    /\ call \in Suspended("verify-order-otp", "getCustomerOrders")
    /\ UNCHANGED sse
    /\ ret' = Returned("verify-order-otp",
                       [email |-> call.email, code |-> call.code],
                       VerifiedResult(call.token, call.firstName, orders))
    /\ calls' = Resume(call)
    /\ UNCHANGED <<now, ticks, otpStorage, activeSessions, uuidCount, started>>

\* getCustomerOrders.execute rejected: the catch block returns
OrdersRejected(call, error) ==
    /\ call \in Suspended("verify-order-otp", "getCustomerOrders")
    /\ UNCHANGED sse
    /\ ret' = Returned("verify-order-otp",
                       [email |-> call.email, code |-> call.code],
                       EnrichmentFailedResult(call.token, error))
    /\ calls' = Resume(call)
    /\ UNCHANGED <<now, ticks, otpStorage, activeSessions, uuidCount, started>>

\* get-orders with a sliding expiry: a call that passes the gate renews the
\* session's createdAt
GetOrdersSliding(args) ==
    LET token == args.token
        rest == Rest(args)
        session == SessionGet(activeSessions, token)
        call == [kind |-> "get-orders", pc |-> "getOrders", token |-> token,
                 rest |-> rest]
    IN  /\ started < MaxStarts
        /\ UNCHANGED sse
        /\ started' = started + 1
        /\ IF session = Undefined
           THEN /\ ret' = Returned("get-orders", [token |-> token],
                                   InvalidTokenResult)
                /\ UNCHANGED <<now, ticks, otpStorage, activeSessions,
                               uuidCount, calls>>
           ELSE IF SessionExpired(session, now)
           THEN /\ activeSessions' = SessionDelete(activeSessions, token)
                /\ ret' = Returned("get-orders", [token |-> token],
                                   TokenExpiredResult)
                /\ UNCHANGED <<now, ticks, otpStorage, uuidCount, calls>>
           ELSE /\ Room
                /\ activeSessions' =
                       SessionSet(activeSessions, token, session.email, now)
                /\ calls' = Suspend(call)
                /\ ret' = NoReturn
                /\ UNCHANGED <<now, ticks, otpStorage, uuidCount>>

\* get-orders up to its await: the session check, and on success the start
\* of the wrapped order query with the token taken out of the arguments
GetOrders(args) ==
    LET token == args.token
        rest == Rest(args)
        session == SessionGet(activeSessions, token)
        call == [kind |-> "get-orders", pc |-> "getOrders", token |-> token,
                 rest |-> rest]
    IN  /\ started < MaxStarts
        /\ UNCHANGED sse
        /\ started' = started + 1
        /\ IF session = Undefined
           THEN /\ ret' = Returned("get-orders", [token |-> token],
                                   InvalidTokenResult)
                /\ UNCHANGED <<now, ticks, otpStorage, activeSessions,
                               uuidCount, calls>>
           ELSE IF SessionExpired(session, now)
           THEN /\ activeSessions' = SessionDelete(activeSessions, token)
                /\ ret' = Returned("get-orders", [token |-> token],
                                   TokenExpiredResult)
                /\ UNCHANGED <<now, ticks, otpStorage, uuidCount, calls>>
           ELSE /\ Room
                /\ calls' = Suspend(call)
                /\ ret' = NoReturn
                /\ UNCHANGED <<now, ticks, otpStorage, activeSessions,
                               uuidCount>>

\* getOrders.execute resolved: the handler returns its result
QueryResolved(call, orders) ==
    /\ call \in Suspended("get-orders", "getOrders")
    /\ UNCHANGED sse
    /\ ret' = Returned("get-orders", [token |-> call.token],
                       OrdersResult([orders |-> orders]))
    /\ calls' = Resume(call)
    /\ UNCHANGED <<now, ticks, otpStorage, activeSessions, uuidCount, started>>

\* getOrders.execute rejected: nothing in the handler catches it
QueryRejected(call, error) ==
    /\ call \in Suspended("get-orders", "getOrders")
    /\ UNCHANGED sse
    /\ ret' = Threw("get-orders", [token |-> call.token], error)
    /\ calls' = Resume(call)
    /\ UNCHANGED <<now, ticks, otpStorage, activeSessions, uuidCount, started>>

Next ==
    \/ \E d \in TickSteps : Tick(d)
    \/ \E e \in Requesters, r \in RandomDraws : RequestOrderOtp(e, r)
    \/ \E call \in BagToSet(calls) : SendResolved(call)
    \/ \E call \in BagToSet(calls), x \in MailErrors : SendRejected(call, x)
    \/ \E e \in Emails, s \in CodeInputs : VerifyOrderOtp(e, s)
    \/ \E call \in BagToSet(calls), l \in CustomerLists :
            CustomersResolved(call, l)
    \/ \E call \in BagToSet(calls), x \in LookupErrors :
            CustomersRejected(call, x)
    \/ \E call \in BagToSet(calls), o \in OrderLists : OrdersResolved(call, o)
    \/ \E call \in BagToSet(calls), x \in LookupErrors :
            OrdersRejected(call, x)
    \/ \E a \in GetOrdersArgs : GetOrders(a)
    \/ \E call \in BagToSet(calls), o \in OrderLists : QueryResolved(call, o)
    \/ \E call \in BagToSet(calls), x \in QueryErrors : QueryRejected(call, x)

Spec == Init /\ [][Next]_vars

----------------------------------------------------------------------------
\* The collaborators' promises settle: each awaited call is eventually
\* resolved or rejected.

\* resend.emails.send settles
MailSettles ==
    \E call \in BagToSet(calls) :
        \/ SendResolved(call)
        \/ \E x \in MailErrors : SendRejected(call, x)

\* getCustomers.execute settles
CustomersSettles ==
    \E call \in BagToSet(calls) :
        \/ \E l \in CustomerLists : CustomersResolved(call, l)
        \/ \E x \in LookupErrors : CustomersRejected(call, x)

\* getCustomerOrders.execute settles
CustomerOrdersSettles ==
    \E call \in BagToSet(calls) :
        \/ \E o \in OrderLists : OrdersResolved(call, o)
        \/ \E x \in LookupErrors : OrdersRejected(call, x)

\* getOrders.execute settles
OrderQuerySettles ==
    \E call \in BagToSet(calls) :
        \/ \E o \in OrderLists : QueryResolved(call, o)
        \/ \E x \in QueryErrors : QueryRejected(call, x)

FairSpec ==
    /\ Spec
    /\ WF_vars(MailSettles)
    /\ WF_vars(CustomersSettles)
    /\ WF_vars(CustomerOrdersSettles)
    /\ WF_vars(OrderQuerySettles)

----------------------------------------------------------------------------
\* The SSE endpoints' steps.

\* GET /sse up to its await: a new transport over the response stream
\* becomes activeTransport, and server.connect is started
SseGet ==
    /\ Len(connections) < MaxConnections
    /\ connections' = Append(connections, [socket |-> "open", pc |-> "connect"])
    /\ activeTransport' = Len(connections) + 1
    /\ response' = NoResponse
    /\ UNCHANGED otp

\* server.connect resolved: the handler registers its "close" listener on
\* the response stream (a stream that has closed already emits no further
\* "close")
ConnectResolved(id) ==
    /\ connections[id].pc = "connect"
    /\ connections' = [connections EXCEPT ![id].pc = "listening"]
    /\ response' = NoResponse
    /\ UNCHANGED <<activeTransport, otp>>

\* server.connect rejected: the handler ends without a "close" listener
ConnectRejected(id) ==
    /\ connections[id].pc = "connect"
    /\ connections' = [connections EXCEPT ![id].pc = "failed"]
    /\ response' = NoResponse
    /\ UNCHANGED <<activeTransport, otp>>

\* what the closing of connection id leaves in activeTransport: the "close"
\* listener, if registered, sets it to null
Closed(id) ==
    IF connections[id].pc = "listening" THEN NoTransport ELSE activeTransport

\* the response stream of a connection closes
SseClose(id) ==
    /\ connections[id].socket = "open"
    /\ connections' = [connections EXCEPT ![id].socket = "closed"]
    /\ activeTransport' = Closed(id)
    /\ response' = NoResponse
    /\ UNCHANGED otp

\* POST /messages: 503 without an active transport, and otherwise the
\* transport handles the message or its fault is answered with 500
SsePost(outcome) ==
    /\ response' =
           IF activeTransport = NoTransport THEN NoConnectionResponse
           ELSE IF outcome = "resolved" THEN HandledResponse
           ELSE InternalErrorResponse
    /\ UNCHANGED <<connections, activeTransport, otp>>

SseNext ==
    \/ SseGet
    \/ \E id \in ConnectionIds : ConnectResolved(id)
    \/ \E id \in ConnectionIds : ConnectRejected(id)
    \/ \E id \in ConnectionIds : SseClose(id)
    \/ \E outcome \in PostOutcomes : SsePost(outcome)

SseSpec == Init /\ [][SseNext]_vars

----------------------------------------------------------------------------
\* Notions the properties below are stated in.

\* a verify-order-otp call for email with this code at time t passes the check
Validates(m, email, code, t) == ~OtpRejected(OtpGet(m, email), code, t)

\* the step starts a verify-order-otp call that passes its check: the call
\* is suspended at the customer lookup under the token just produced
VerifyPassed(email, code) ==
    /\ uuidCount' = uuidCount + 1
    /\ ret' = NoReturn
    /\ \E call \in Suspended("verify-order-otp", "getCustomers")' :
          /\ call.email = email
          /\ call.code = code
          /\ call.token = UUID(uuidCount')

\* the step is a verify-order-otp call that fails with InvalidOrExpired
VerifyFailed(email, code) ==
    /\ ret' = Returned("verify-order-otp", [email |-> email, code |-> code],
                       [isError |-> TRUE,
                        text |-> [t |-> "Invalid or expired OTP"]])
    /\ uuidCount' = uuidCount
    /\ calls' = calls

----------------------------------------------------------------------------
\* C1 as stated: after a request-otp for an email whose previous request
\* has returned and left its OTP pending, the store holds exactly one pending
\* OTP for the email, the new call's code validates and the previous call's
\* code is rejected.
C1_FirstCodeRejected ==
    [][\A e \in Requesters, r \in RandomDraws :
          (/\ RequestOrderOtp(e, r)
           /\ OtpEntries(otpStorage, e) # {}
           /\ \A call \in Suspended("request-order-otp", "send") :
                  call.email # e) =>
              /\ Cardinality(OtpEntries(otpStorage', e)) = 1
              /\ Validates(otpStorage', e, GenerateCode(r), now')
              /\ ~Validates(otpStorage', e, OtpGet(otpStorage, e).code, now')
      ]_vars

\* C1 amended: after a request-otp for an email whose previous request's OTP
\* is still pending, the store holds exactly one pending OTP for the email,
\* with the new call's code and an expiry 300 s after the call, and a
\* submitted code validates exactly if it is the new call's code; the
\* previous call's code is rejected unless the new call drew the same code.
C1_SecondCodeOnly ==
    [][\A e \in Requesters, r \in RandomDraws :
          (RequestOrderOtp(e, r) /\ OtpEntries(otpStorage, e) # {}) =>
              /\ OtpEntries(otpStorage', e) =
                     {[email |-> e, code |-> GenerateCode(r),
                       expires |-> now + 300 * 1000]}
              /\ \A s \in CodeInputs :
                     Validates(otpStorage', e, s, now') <=> s = GenerateCode(r)
              /\ OtpGet(otpStorage, e).code # GenerateCode(r) =>
                     ~Validates(otpStorage', e, OtpGet(otpStorage, e).code,
                                now')
      ]_vars

\* C1 witness: two request-otp calls for the same email with different codes,
\* the second started after the first, and the store holds the second's
\* pending OTP alone.
C1_Witness ==
    \E a, b \in Suspended("request-order-otp", "send") :
        /\ a.email = b.email
        /\ a.code # b.code
        /\ a.expires < b.expires
        /\ OtpEntries(otpStorage, a.email) =
               {[email |-> b.email, code |-> b.code, expires |-> b.expires]}
        /\ ~Validates(otpStorage, a.email, a.code, now)
        /\ Validates(otpStorage, b.email, b.code, now)

----------------------------------------------------------------------------
\* C2: a verify-otp with the pending code before expiry succeeds and deletes
\* the pending OTP, so that no code validates for the email afterwards; a
\* verify-otp for an email with no pending OTP fails with InvalidOrExpired;
\* and only a request-otp for the email makes an OTP pending for it again.
C2_SingleUse ==
    [][\A e \in Emails :
          /\ \A s \in CodeInputs :
                (VerifyOrderOtp(e, s) /\ Validates(otpStorage, e, s, now)) =>
                    /\ VerifyPassed(e, s)
                    /\ OtpEntries(otpStorage', e) = {}
                    /\ \A s2 \in CodeInputs :
                           ~Validates(otpStorage', e, s2, now')
          /\ \A s \in CodeInputs :
                (VerifyOrderOtp(e, s) /\ OtpEntries(otpStorage, e) = {}) =>
                    VerifyFailed(e, s)
          /\ (OtpEntries(otpStorage, e) = {} /\ OtpEntries(otpStorage', e) # {})
                => \E r \in RandomDraws : RequestOrderOtp(e, r)
      ]_vars

\* C2 witness: a verify-otp has just failed with the code that an earlier
\* verify-otp for the same email succeeded with (that call is still at its
\* enrichment, its session is stored), and no OTP is pending for the email.
C2_Witness ==
    /\ ret # NoReturn
    /\ ret.kind = "verify-order-otp"
    /\ ret.value = InvalidOtpResult
    /\ OtpEntries(otpStorage, ret.call.email) = {}
    /\ \E call \in BagToSet(calls) :
          /\ call.kind = "verify-order-otp"
          /\ call.email = ret.call.email
          /\ call.code = ret.call.code
          /\ SessionEntries(activeSessions, call.token) # {}

----------------------------------------------------------------------------
\* C3: a pending OTP expires 300 s after its request-otp, and a verify-otp
\* made after that instant with the stored code fails with InvalidOrExpired
\* and leaves both stores as they are (no session is created).
C3_ExpiredRejected ==
    [][/\ \A e \in Requesters, r \in RandomDraws :
             RequestOrderOtp(e, r) =>
                 OtpGet(otpStorage', e).expires = now + 300 * 1000
       /\ \A e \in Emails, s \in CodeInputs :
             (/\ VerifyOrderOtp(e, s)
              /\ OtpEntries(otpStorage, e) # {}
              /\ OtpGet(otpStorage, e).code = s
              /\ now > OtpGet(otpStorage, e).expires) =>
                 /\ VerifyFailed(e, s)
                 /\ activeSessions' = activeSessions
                 /\ otpStorage' = otpStorage
      ]_vars

\* C3 witness: a verify-otp has just failed although the submitted code is
\* the stored one, the clock being past the stored expiry.
C3_Witness ==
    /\ ret # NoReturn
    /\ ret.kind = "verify-order-otp"
    /\ ret.value = InvalidOtpResult
    /\ OtpEntries(otpStorage, ret.call.email) # {}
    /\ OtpGet(otpStorage, ret.call.email).code = ret.call.code
    /\ now > OtpGet(otpStorage, ret.call.email).expires
    /\ activeSessions = {}

----------------------------------------------------------------------------
\* More notions for the properties of the token-gated get-orders.

\* the step is a get-orders call that passes the gate: the wrapped order
\* query is started and the handler is suspended at it
Dispatched(args) ==
    /\ ret' = NoReturn
    /\ BagCardinality(calls') = BagCardinality(calls) + 1
    /\ \E call \in Suspended("get-orders", "getOrders")' :
          /\ call.token = args.token
          /\ CopiesIn(call, calls') = CopiesIn(call, calls) + 1

\* the step is a get-orders call rejected with an Unauthorized error result,
\* the wrapped order query not started
Unauthorized(args) ==
    /\ calls' = calls
    /\ ret'.kind = "get-orders"
    /\ ret'.outcome = "result"
    /\ ret'.call = [token |-> args.token]
    /\ ret'.value.isError
    /\ ret'.value.text.t = "Unauthorized"

\* the step before handed back a successful verify-order-otp result that
\* carries this token
JustVerified(token) ==
    /\ ret # NoReturn
    /\ ret.kind = "verify-order-otp"
    /\ ret.outcome = "result"
    /\ ~ret.value.isError
    /\ ret.value.text.token = token

----------------------------------------------------------------------------
\* C4 as stated: a get-orders call made right after a successful verify-otp
\* has returned, with the token it returned, passes the gate, however long
\* the enrichment took; and a get-orders call with a token whose session is
\* older than 1 hour is rejected.
C4_AcceptedOnReturn ==
    [][\A a \in GetOrdersArgs :
          /\ (GetOrders(a) /\ JustVerified(a.token)) => Dispatched(a)
          /\ (/\ GetOrders(a)
              /\ SessionEntries(activeSessions, a.token) # {}
              /\ now - SessionGet(activeSessions, a.token).createdAt
                     > 3600 * 1000) => Unauthorized(a)
      ]_vars

\* C4 amended: the session of a successful verify-otp is created with
\* createdAt the instant the code check passes, before the enrichment calls;
\* a get-orders call with its token passes the gate if at most 1 hour has
\* passed since createdAt (so right after the return if the enrichment took
\* no longer than that) and is rejected once more than 1 hour has passed.
C4_AcceptedWithinWindow ==
    [][/\ \A e \in Emails, s \in CodeInputs :
             (VerifyOrderOtp(e, s) /\ Validates(otpStorage, e, s, now)) =>
                 SessionEntries(activeSessions', UUID(uuidCount')) =
                     {[token |-> UUID(uuidCount'), email |-> e,
                       createdAt |-> now]}
       /\ \A a \in GetOrdersArgs :
             (GetOrders(a) /\ SessionEntries(activeSessions, a.token) # {}) =>
                 IF now - SessionGet(activeSessions, a.token).createdAt
                        <= 3600 * 1000
                 THEN Dispatched(a)
                 ELSE Unauthorized(a)
      ]_vars

\* C4 witness: a get-orders call has passed the gate with a token whose
\* session is exactly 1 hour old.
C4_Witness ==
    \E call \in Suspended("get-orders", "getOrders") :
        /\ SessionEntries(activeSessions, call.token) # {}
        /\ now - SessionGet(activeSessions, call.token).createdAt = 3600 * 1000

----------------------------------------------------------------------------
\* C5: a get-orders call whose token is not a key of the Session Store is
\* rejected with Unauthorized, starts no order query and changes no store.
C5_UnknownTokenRejected ==
    [][\A a \in GetOrdersArgs :
          (GetOrders(a) /\ SessionEntries(activeSessions, a.token) = {}) =>
              /\ Unauthorized(a)
              /\ activeSessions' = activeSessions
              /\ otpStorage' = otpStorage
      ]_vars

\* C5 witness: a get-orders call with a token that is not in the Session
\* Store has just been rejected while another token has a session.
C5_Witness ==
    /\ ret # NoReturn
    /\ ret.kind = "get-orders"
    /\ ret.outcome = "result"
    /\ ret.value.isError
    /\ SessionEntries(activeSessions, ret.call.token) = {}
    /\ activeSessions # {}
    /\ \A call \in BagToSet(calls) : call.kind # "get-orders"

----------------------------------------------------------------------------
\* C6: a verify-otp that passes the code check stores the session under its
\* token; whichever way its enrichment goes (no customer, the customer
\* lookup throws, the order lookup throws, or both lookups succeed) the call
\* returns a non-error result that carries the token, the session still in
\* the Session Store; in the degraded cases the payload is a message.
C6_DegradeNotFail ==
    [][/\ \A e \in Emails, s \in CodeInputs :
             (VerifyOrderOtp(e, s) /\ Validates(otpStorage, e, s, now)) =>
                 /\ VerifyPassed(e, s)
                 /\ SessionEntries(activeSessions', UUID(uuidCount')) # {}
       /\ \A call \in BagToSet(calls) :
             (/\ call.kind = "verify-order-otp"
              /\ CopiesIn(call, calls') < CopiesIn(call, calls)) =>
                 /\ SessionEntries(activeSessions', call.token) # {}
                 /\ \/ /\ ret' = NoReturn
                       /\ \E next \in Suspended("verify-order-otp",
                                                "getCustomerOrders")' :
                              next.token = call.token
                    \/ /\ ret' # NoReturn
                       /\ ret'.kind = "verify-order-otp"
                       /\ ret'.outcome = "result"
                       /\ ~ret'.value.isError
                       /\ ret'.value.text.token = call.token
       /\ \A call \in BagToSet(calls) :
             (\/ CustomersResolved(call, << >>)
              \/ \E x \in LookupErrors :
                    CustomersRejected(call, x) \/ OrdersRejected(call, x)) =>
                 /\ ~ret'.value.isError
                 /\ DOMAIN ret'.value.text \in
                        {{"token", "message"}, {"token", "message", "error"}}
      ]_vars

\* C6 witness: a verify-otp whose lookup threw has just returned a non-error
\* result with the token and a message, and the token's session is stored.
C6_Witness ==
    /\ ret # NoReturn
    /\ ret.kind = "verify-order-otp"
    /\ ~ret.value.isError
    /\ "error" \in DOMAIN ret.value.text
    /\ SessionEntries(activeSessions, ret.value.text.token) # {}

----------------------------------------------------------------------------
\* C7: when the mail send fails, request-otp returns an error result (the
\* handler does not throw) and leaves the Credential Store as it is: the
\* pending OTP the call wrote, if still the stored one, keeps its code and
\* expiry and validates up to its expiry.
C7_DispatchFailureKeepsOtp ==
    [][\A call \in Suspended("request-order-otp", "send"), x \in MailErrors :
          SendRejected(call, x) =>
              LET entry == [email |-> call.email, code |-> call.code,
                            expires |-> call.expires]
              IN  /\ ret'.kind = "request-order-otp"
                  /\ ret'.outcome = "result"
                  /\ ret'.value.isError
                  /\ otpStorage' = otpStorage
                  /\ entry \in otpStorage =>
                        /\ entry \in otpStorage'
                        /\ \A t \in {now', entry.expires} :
                               t <= entry.expires =>
                                   Validates(otpStorage', call.email,
                                             call.code, t)
      ]_vars

\* C7 witness: a request-otp has just returned the error result of a failed
\* mail send, and the code it wrote is pending and not expired.
C7_Witness ==
    /\ ret # NoReturn
    /\ ret.kind = "request-order-otp"
    /\ ret.value.isError
    /\ Validates(otpStorage, ret.call.email, ret.call.code, now)

----------------------------------------------------------------------------
\* C8 as stated: every rejection by the gate hands back the same error
\* result, the one an unknown token gets, whichever sub-cause applied.
C8_SameRejection ==
    (/\ ret # NoReturn
     /\ ret.kind = "get-orders"
     /\ ret.outcome = "result"
     /\ ret.value.isError) =>
        ret.value = [isError |-> TRUE,
                     text |-> [t |-> "Unauthorized",
                               detail |-> "Invalid token"]]

\* C8 amended: both rejections are error results that start with
\* "Unauthorized", but their texts differ: an unknown token gets
\* "Unauthorized: Invalid token" and an expired one "Unauthorized: Token
\* expired", so the result tells the caller which sub-cause applied.
C8_RejectionNamesCause ==
    [][\A a \in GetOrdersArgs :
          (GetOrders(a) /\ ret' # NoReturn) =>
              /\ Unauthorized(a)
              /\ ret'.value.text.detail =
                     IF SessionEntries(activeSessions, a.token) = {}
                     THEN "Invalid token"
                     ELSE "Token expired"
      ]_vars

\* C8 witness: an expired token has just been rejected with a text that
\* differs from the one for an unknown token.
C8_Witness ==
    /\ ret # NoReturn
    /\ ret.kind = "get-orders"
    /\ ret.outcome = "result"
    /\ ret.value.isError
    /\ ret.value.text.detail = "Token expired"
    /\ ret.value # InvalidTokenResult

----------------------------------------------------------------------------
\* C9: verify-otp hands back the same InvalidOrExpired error result for each
\* of its three failure causes: no pending OTP for the email, a stored code
\* other than the submitted one, and a clock past the stored expiry.
C9_OneRejection ==
    [][\A e \in Emails, s \in CodeInputs :
          VerifyOrderOtp(e, s) =>
              /\ OtpEntries(otpStorage, e) = {} => VerifyFailed(e, s)
              /\ (/\ OtpEntries(otpStorage, e) # {}
                  /\ OtpGet(otpStorage, e).code # s) => VerifyFailed(e, s)
              /\ (/\ OtpEntries(otpStorage, e) # {}
                  /\ now > OtpGet(otpStorage, e).expires) => VerifyFailed(e, s)
      ]_vars

\* C9 witness: a verify-otp has just failed with InvalidOrExpired because
\* the submitted code is not the stored one, which has not expired.
C9_Witness ==
    /\ ret # NoReturn
    /\ ret.kind = "verify-order-otp"
    /\ ret.value = InvalidOtpResult
    /\ OtpEntries(otpStorage, ret.call.email) # {}
    /\ OtpGet(otpStorage, ret.call.email).code # ret.call.code
    /\ now <= OtpGet(otpStorage, ret.call.email).expires

----------------------------------------------------------------------------
\* C10: whatever a handler hands back is a structured result value; no
\* fault of a collaborator leaves a handler.
C10_NoFaultEscapes == ret # NoReturn => ret.outcome = "result"

----------------------------------------------------------------------------
\* the tokens handed out so far by successful verifications
Minted == {UUID(n) : n \in 1..uuidCount}

----------------------------------------------------------------------------
\* C12: the pending OTP stored by request-otp at time t0 expires at
\* t0 + 300 s, and verify-otp(email, code) at time t passes (and mints a
\* session) exactly when a pending OTP is stored for email, its code is the
\* submitted code and t is at most its expiry, the expiry instant included;
\* in every other case it fails with InvalidOrExpired and mints no session.
C12_ExactAcceptance ==
    [][/\ \A e \in Requesters, r \in RandomDraws :
             RequestOrderOtp(e, r) =>
                 OtpEntries(otpStorage', e) =
                     {[email |-> e, code |-> GenerateCode(r),
                       expires |-> now + 300 * 1000]}
       /\ \A e \in Emails, s \in CodeInputs :
             VerifyOrderOtp(e, s) =>
                 IF \E p \in otpStorage :
                        p.email = e /\ p.code = s /\ now <= p.expires
                 THEN /\ VerifyPassed(e, s)
                      /\ activeSessions' = activeSessions \cup
                             {[token |-> UUID(uuidCount + 1), email |-> e,
                               createdAt |-> now]}
                 ELSE /\ VerifyFailed(e, s)
                      /\ activeSessions' = activeSessions
      ]_vars

\* C12 witness: a verify-otp has passed at the very instant its pending OTP
\* expired: the request-otp that stored the OTP is still waiting for the mail
\* service, and the session the verification stored was created at the
\* expiry that request computed, later than the request itself.
C12_Witness ==
    \E v \in Suspended("verify-order-otp", "getCustomers"),
       q \in Suspended("request-order-otp", "send") :
        /\ v.email = q.email
        /\ v.code = q.code
        /\ SessionEntries(activeSessions, v.token) # {}
        /\ SessionGet(activeSessions, v.token).createdAt = q.expires
        /\ now = q.expires

----------------------------------------------------------------------------
\* C13: the Session Store starts empty, and a session enters it only in a
\* verify-otp step for the session's email that matches an unexpired pending
\* OTP; that same step deletes the pending OTP and stores the session with
\* a new token and the current time.
C13_SessionsFromVerification ==
    /\ activeSessions = {}
    /\ [][\A x \in activeSessions' \ activeSessions :
             \E e \in Emails, s \in CodeInputs :
                 /\ VerifyOrderOtp(e, s)
                 /\ \E p \in otpStorage :
                        p.email = e /\ p.code = s /\ now <= p.expires
                 /\ x = [token |-> UUID(uuidCount + 1), email |-> e,
                         createdAt |-> now]
                 /\ OtpEntries(otpStorage', e) = {}
                 /\ activeSessions' = activeSessions \cup {x}
         ]_vars

\* C13 witness: a verification has just stored a session: its call is at the
\* customer lookup, the session carries the current time, and no OTP is
\* pending any more for the session's email.
C13_Witness ==
    /\ ret = NoReturn
    /\ \E x \in activeSessions :
          /\ x.createdAt = now
          /\ x.email \in Requesters
          /\ OtpEntries(otpStorage, x.email) = {}
          /\ \E v \in Suspended("verify-order-otp", "getCustomers") :
                 v.token = x.token /\ v.email = x.email

----------------------------------------------------------------------------
----------------------------------------------------------------------------
\* C15: a session leaves the Session Store only in a get-orders step that
\* presents the session's token when the session is older than 1 hour; every
\* other step keeps every stored session, expired or not.
C15_LazyEviction ==
    [][\A x \in activeSessions :
          x \notin activeSessions' =>
              \E a \in GetOrdersArgs :
                  /\ a.token = x.token
                  /\ GetOrders(a)
                  /\ now - x.createdAt > 3600 * 1000
                  /\ activeSessions' = activeSessions \ {x}
      ]_vars

\* C15 witness: a session older than 1 hour is still in the store after a
\* step of another operation has returned its result.
C15_Witness ==
    /\ ret # NoReturn
    /\ ret.kind # "get-orders"
    /\ \E x \in activeSessions : now - x.createdAt > 3600 * 1000

----------------------------------------------------------------------------
\* C16: while the clock is past the expiry of a pending OTP, the clock does
\* not go back, every verify-otp for its email fails with InvalidOrExpired
\* and changes neither store, and the record stays in the Credential Store
\* unless the step is a request-otp for the same email, which replaces it.
C16_ExpiredStaysUntilOverwritten ==
    [][\A p \in otpStorage :
          now > p.expires =>
              /\ now' >= now
              /\ \A s \in CodeInputs :
                     VerifyOrderOtp(p.email, s) =>
                         /\ VerifyFailed(p.email, s)
                         /\ otpStorage' = otpStorage
                         /\ activeSessions' = activeSessions
              /\ \/ p \in otpStorage'
                 \/ \E r \in RandomDraws :
                        /\ RequestOrderOtp(p.email, r)
                        /\ OtpEntries(otpStorage', p.email) =
                               {[email |-> p.email, code |-> GenerateCode(r),
                                 expires |-> now + 300 * 1000]}
      ]_vars

\* C16 witness: the request-otp that stored the pending OTP has returned,
\* the clock is past the expiry, a verify-otp with the stored code has just
\* failed, and the record is still in the Credential Store.
C16_Witness ==
    /\ ret # NoReturn
    /\ ret.kind = "verify-order-otp"
    /\ ret.value = InvalidOtpResult
    /\ Suspended("request-order-otp", "send") = {}
    /\ \E p \in otpStorage :
          /\ p.email = ret.call.email
          /\ p.code = ret.call.code
          /\ now > p.expires

----------------------------------------------------------------------------
\* C17 as stated: when a request-otp for an email starts while another
\* request-otp for that email is suspended at the mail dispatch, its write
\* leaves exactly one pending OTP for the email, the one it wrote, and the
\* code of the suspended call does not validate; the completion of a call,
\* successful or not, writes nothing to the Credential Store.
C17_OtherCodeInvalid ==
    [][/\ \A e \in Requesters, r \in RandomDraws :
             RequestOrderOtp(e, r) =>
                 \A q \in Suspended("request-order-otp", "send") :
                     q.email = e =>
                         /\ OtpEntries(otpStorage', e) =
                                {[email |-> e, code |-> GenerateCode(r),
                                  expires |-> now + 300 * 1000]}
                         /\ ~Validates(otpStorage', e, q.code, now)
       /\ \A call \in BagToSet(calls), x \in MailErrors :
             (SendResolved(call) \/ SendRejected(call, x)) =>
                 otpStorage' = otpStorage
      ]_vars

\* C17: the same, the code of the suspended call failing to validate when it
\* differs from the code just drawn, and validating when the two draws gave
\* the same code.
C17_LastWriteWins ==
    [][/\ \A e \in Requesters, r \in RandomDraws :
             RequestOrderOtp(e, r) =>
                 \A q \in Suspended("request-order-otp", "send") :
                     q.email = e =>
                         /\ OtpEntries(otpStorage', e) =
                                {[email |-> e, code |-> GenerateCode(r),
                                  expires |-> now + 300 * 1000]}
                         /\ q.code # GenerateCode(r) =>
                                ~Validates(otpStorage', e, q.code, now)
                         /\ q.code = GenerateCode(r) =>
                                Validates(otpStorage', e, q.code, now)
       /\ \A call \in BagToSet(calls), x \in MailErrors :
             (SendResolved(call) \/ SendRejected(call, x)) =>
                 otpStorage' = otpStorage
      ]_vars

\* C17 witness: two request-otp calls for one email overlapped and both have
\* completed; the one that has just reported success is not the one that
\* wrote last: one pending OTP is stored for the email, with another code
\* than the code of the call that reported success.
C17_Witness ==
    /\ ret # NoReturn
    /\ ret.kind = "request-order-otp"
    /\ ret.outcome = "result"
    /\ ~ret.value.isError
    /\ Suspended("request-order-otp", "send") = {}
    /\ Cardinality(OtpEntries(otpStorage, ret.call.email)) = 1
    /\ OtpGet(otpStorage, ret.call.email).code # ret.call.code
    /\ activeSessions = {}
    /\ uuidCount = 0

----------------------------------------------------------------------------
\* C18: a get-orders call that passes the gate starts the wrapped order
\* query with the caller's status and limit as given and with no other
\* field: the token is not among the forwarded arguments.
C18_ForwardsRest ==
    [][\A a \in GetOrdersArgs :
          (GetOrders(a) /\ Dispatched(a)) =>
              \E call \in Suspended("get-orders", "getOrders")' :
                  /\ CopiesIn(call, calls') = CopiesIn(call, calls) + 1
                  /\ call.token = a.token
                  /\ call.rest = [status |-> a.status, limit |-> a.limit]
                  /\ DOMAIN call.rest = {"status", "limit"}
      ]_vars

\* C18 witness: an order query is under way for a get-orders call made with
\* a status and a limit other than the defaults; it was started with those
\* two values and without the token.
C18_Witness ==
    \E call \in Suspended("get-orders", "getOrders") :
        /\ SessionEntries(activeSessions, call.token) # {}
        /\ call.rest.status = "closed"
        /\ call.rest.limit = 250
        /\ "token" \notin DOMAIN call.rest

----------------------------------------------------------------------------
\* C20: the check, the deletion of the pending OTP and the creation of the
\* session are one step: a verify-otp that passes leaves no pending OTP for
\* the email and adds exactly one session; a verify-otp for an email with no
\* pending OTP fails and changes neither store; hence a verify-otp that
\* passes while an earlier verify-otp for the same email is still under way
\* has matched a pending OTP issued no earlier than the session of that
\* earlier call, never the OTP that call consumed.
C20_OnePassPerOtp ==
    [][\A e \in Emails, s \in CodeInputs :
          VerifyOrderOtp(e, s) =>
              /\ uuidCount' # uuidCount =>
                     /\ VerifyPassed(e, s)
                     /\ OtpEntries(otpStorage', e) = {}
                     /\ Cardinality(activeSessions') =
                            Cardinality(activeSessions) + 1
                     /\ \A v \in BagToSet(calls) :
                            (/\ v.kind = "verify-order-otp"
                             /\ v.email = e
                             /\ SessionEntries(activeSessions, v.token) # {}) =>
                                OtpGet(otpStorage, e).expires >=
                                    SessionGet(activeSessions, v.token).createdAt
                                        + 300 * 1000
              /\ OtpEntries(otpStorage, e) = {} =>
                     /\ VerifyFailed(e, s)
                     /\ otpStorage' = otpStorage
                     /\ activeSessions' = activeSessions
      ]_vars

\* C20 witness: two verify-otp calls for one email with the same code
\* overlap at one instant: the first passed and is at its customer lookup,
\* the second, made at the instant the first stored its session, has just
\* failed; one session exists and no OTP is pending for the email.
C20_Witness ==
    /\ ret # NoReturn
    /\ ret.kind = "verify-order-otp"
    /\ ret.value = InvalidOtpResult
    /\ uuidCount = 1
    /\ Cardinality(activeSessions) = 1
    /\ OtpEntries(otpStorage, ret.call.email) = {}
    /\ \E v \in Suspended("verify-order-otp", "getCustomers") :
          /\ v.email = ret.call.email
          /\ v.code = ret.call.code
          /\ SessionEntries(activeSessions, v.token) # {}
          /\ SessionGet(activeSessions, v.token).createdAt = now

----------------------------------------------------------------------------
\* the step ends a call: a handler that was suspended leaves the calls
\* under way
CallEnds == BagCardinality(calls') < BagCardinality(calls)

\* C19: every call that ends hands a result back to its caller (every
\* request-otp, verify-otp and get-orders call returns a result once the
\* external call it waits for has completed or failed).
C19_EndsWithResult ==
    [][CallEnds => ret'.outcome = "result"]_vars

\* C19, the termination alone: when the external calls settle, every call
\* under way ends, by a result or by a fault, and the calls under way are
\* all ended again and again.
C19_EveryCallEnds == (calls # EmptyBag) ~> (calls = EmptyBag)

\* C19, no waiting: a suspended call can always take its next step, whatever
\* the other calls and the two stores are.
C19_NoCallWaits ==
    \A call \in BagToSet(calls) :
        \/ ENABLED SendResolved(call)
        \/ ENABLED (\E l \in CustomerLists : CustomersResolved(call, l))
        \/ ENABLED (\E o \in OrderLists : OrdersResolved(call, o))
        \/ ENABLED (\E o \in OrderLists : QueryResolved(call, o))

----------------------------------------------------------------------------
\* the step before handed back the failure of a verify-order-otp call for
\* this email
JustFailed(email) ==
    /\ ret # NoReturn
    /\ ret.kind = "verify-order-otp"
    /\ ret.outcome = "result"
    /\ ret.value = InvalidOtpResult
    /\ ret.call.email = email

\* C21: a verify-otp that fails, by a wrong code, an email with no pending
\* OTP or an expired OTP, changes neither the Credential Store nor the
\* Session Store, so every code validates after it exactly as before it; and
\* a verify-otp made right after a failed one for the same email, with the
\* stored code and no later than the expiry, passes.
C21_FailureChangesNothing ==
    [][\A e \in Emails, s \in CodeInputs :
          /\ (VerifyOrderOtp(e, s) /\ uuidCount' = uuidCount) =>
                 /\ VerifyFailed(e, s)
                 /\ otpStorage' = otpStorage
                 /\ activeSessions' = activeSessions
                 /\ \A e2 \in Emails, s2 \in CodeInputs :
                        Validates(otpStorage', e2, s2, now')
                            <=> Validates(otpStorage, e2, s2, now)
          /\ (/\ VerifyOrderOtp(e, s)
              /\ JustFailed(e)
              /\ \E p \in otpStorage :
                     p.email = e /\ p.code = s /\ now <= p.expires) =>
                 VerifyPassed(e, s)
      ]_vars

\* C21 witness: a verify-otp with a wrong code has just failed for an email
\* whose pending OTP is not expired; the pending OTP is still stored and its
\* code still validates.
C21_Witness ==
    /\ ret # NoReturn
    /\ JustFailed(ret.call.email)
    /\ \E p \in otpStorage :
          /\ p.email = ret.call.email
          /\ p.code # ret.call.code
          /\ now <= p.expires
          /\ Validates(otpStorage, p.email, p.code, now)

----------------------------------------------------------------------------
----------------------------------------------------------------------------
\* C23: POST /messages answers 503 "No active SSE connection" exactly when
\* no SSE connection is open, and while the connection opened last is open
\* activeTransport refers to its transport.
C23_ActiveIffOpen ==
    [][/\ \A outcome \in PostOutcomes :
             SsePost(outcome) =>
                 (response' = NoConnectionResponse <=> OpenConnections = {})
       /\ (/\ connections' # << >>
           /\ connections'[Len(connections')].socket = "open") =>
              activeTransport' = Len(connections')
      ]_vars

====
